---- MODULE Spec2Model ----
(***************************************************************************)
(* State-machine model of the chatbot front-end:                           *)
(*   - the auth session store (src/contexts/AuthContext.tsx) with the      *)
(*     auth endpoints (src/unnamed/part_003) and the token storage of the  *)
(*     API client (src/lib/api/admin.ts, class ApiClient);                 *)
(*   - the route guard (src/components/auth/ProtectedRoute.tsx) and the    *)
(*     admin page that uses it (src/app/admin/page.tsx);                   *)
(*   - the chat page controller (src/app/chat/page.tsx);                   *)
(*   - the settings tab of the admin page and its form                     *)
(*     (src/app/admin/page.tsx);                                           *)
(*   - ApiClient.request (src/lib/api/admin.ts);                           *)
(*   - the register form (src/app/chat/page.tsx, RegisterPage) and the     *)
(*     reset-password form (src/app/recovery/reset-password).              *)
(* Time is counted in minutes.  A backend call is a request that stays     *)
(* outstanding until a response action delivers its outcome.               *)
(***************************************************************************)
EXTENDS Integers, Sequences, FiniteSets, Bags

VARIABLES
    USE_MOCK_AUTH,   \* build-time bypass switch (fixed during a run)
    user,            \* AuthProvider state: id of the current user or NULL
    loading,         \* AuthProvider state
    lastActivity,    \* AuthProvider state: time of the last recorded activity
    token,           \* localStorage 'auth_token'
    userId,          \* user id kept by apiClient.setUserId
    now,             \* Date.now(), in minutes
    lastEvent,       \* time of the last DOM interaction event (observer)
    mounted,         \* the mount effect of AuthProvider has run
    meReq,           \* outstanding GET /auth/me: NoReq or the bearer token it carries
    loginPending,    \* outstanding POST /auth/login requests
    registerPending, \* outstanding POST /auth/register requests
    logoutPending,   \* outstanding POST /auth/logout requests
    backendCalled,   \* some auth endpoint has been requested
    location,        \* window.location.href as set by the watchdog
    route,           \* route shown by the router
    messages,        \* ChatPageContent state: the displayed message sequence
    conversations,   \* ChatPageContent state: ids of the conversations in the sidebar
    currentConversationId, \* ChatPageContent state: the selected conversation or NoConv
    isLoading,       \* ChatPageContent state: a send is in progress
    error,           \* ChatPageContent state: text of the error banner
    sendCtx,         \* the running handleSendMessage: its closure and response
    sentCount,       \* sends started so far
    deleteCount,     \* deletions started so far
    net,             \* bag of outstanding chat requests
    srvConvs,        \* backend: ids of the existing conversations
    srvMsgs,         \* backend: messages of each conversation
    srvCreated,      \* backend: conversations created so far
    settings,        \* AdminPageContent state: <<>> (null) or <<SystemSettings>>
    modelOptions,    \* AdminPageContent state: the model option list
    adminLoading,    \* AdminPageContent state 'loading'
    adminError,      \* AdminPageContent state 'error'
    formData,        \* SystemSettingsForm state: <<>> (form not mounted) or <<record>>
    formLoading,     \* SystemSettingsForm state 'loading'
    saved,           \* SystemSettingsForm state 'saved'
    settingsFetch,   \* GET /admin/settings of the running loadData
    modelsFetch,     \* GET /admin/models of the running loadData
    settingsData,    \* the fulfilled value of the settings fetch
    modelsData,      \* the fulfilled value of the models fetch (after its catch)
    putReq,          \* outstanding PUT /admin/settings: <<>> or <<payload>>
    loadCount,       \* runs of loadData started so far
    submitCount,     \* submits of the settings form so far
    apiReq,          \* ApiClient: <<>> or the request whose fetch is outstanding
    apiResult,       \* ApiClient: how the last request ended
    registerForm,    \* RegisterPage state
    resetForm,       \* ResetPasswordWithTokenPage state
    validatePending, \* outstanding GET /auth/validate-reset-token
    resetPending,    \* outstanding POST /auth/reset-password requests
    activeTab,       \* AdminPageContent state: the tab shown
    tabLoads,        \* outstanding loadData calls of the single-fetch tabs
    tabSeq,          \* loadData calls of the single-fetch tabs issued so far
    tabData,         \* per tab, the loadData call whose data is shown (0: none)
    apiKeys,         \* AdminPageContent state: the keys of the key list
    newKeyDisplayed, \* ApiKeyManagement state: <<>> (null) or <<full key>>
    keyLoading,      \* ApiKeyManagement state 'loading'
    keyError,        \* ApiKeyManagement state 'error'
    createReq,       \* POST /admin/api-keys is outstanding
    createCount,     \* key creations started so far
    done             \* the handler step that has just run (observer)

authVars == <<USE_MOCK_AUTH, user, loading, lastActivity, token, userId, now,
              lastEvent, mounted, meReq, loginPending, registerPending,
              logoutPending, backendCalled, location>>
chatVars == <<messages, conversations, currentConversationId, isLoading, error,
              sendCtx, sentCount, deleteCount, net, srvConvs, srvMsgs, srvCreated>>
adminVars == <<settings, modelOptions, adminLoading, adminError, formData,
               formLoading, saved, settingsFetch, modelsFetch, settingsData,
               modelsData, putReq, loadCount, submitCount>>
apiVars == <<apiReq, apiResult>>
formVars == <<registerForm, resetForm, validatePending, resetPending>>
tabVars == <<activeTab, tabLoads, tabSeq, tabData>>
keyVars == <<apiKeys, newKeyDisplayed, keyLoading, keyError, createReq, createCount>>
panelVars == <<tabVars, keyVars>>
pageVars == <<adminVars, apiVars, formVars, panelVars>>
vars == <<authVars, route, pageVars, chatVars, pageVars, done>>

----------------------------------------------------------------------------
(* Bounds of the model *)

MaxPending == 1      \* outstanding requests per auth endpoint
TickIntervals == 20  \* watchdog check intervals that elapse in one Tick
MaxNow == 80         \* the clock stops here
MaxConvs == 2        \* conversations the backend creates
MaxSends == 2        \* chat sends started
MaxDeletes == 1      \* conversation deletions started
MaxNet == 2          \* outstanding chat requests when the user starts another
MaxLoads == 2        \* runs of loadData on the settings tab
MaxSubmits == 1      \* submits of the settings form
MaxPasswordLen == 9  \* longest password typed into a form
MaxTabLoads == 4     \* loadData calls of the single-fetch tabs
MaxKeyLen == 6       \* longest API key
MaxKeys == 2         \* longest key list the backend returns
MaxCreates == 1      \* key creations started

(* Program constants, in minutes *)
SESSION_TIMEOUT_MIN == 60
WARNING_TIME_MIN == 5
CHECK_INTERVAL_MIN == 1

NULL == "null"
NoReq == "noreq"

BackendUsers == {"alice", "bob", "carol"}
MOCK_USER == "test-user"
MOCK_TOKEN == "mock-test-token"
Tokens == {"tokA", "tokB"}
Credentials == {"good", "bad"}

\* User.role
Role(u) ==
    CASE u = "alice" -> "user"
      [] u = "bob" -> "admin"
      [] u = "carol" -> "super-admin"
      [] u = MOCK_USER -> "admin"
      [] OTHER -> "none"

\* Outcomes of ApiClient.request: 200 returns the body, a non-2xx status
\* throws ApiError(status), a network failure throws ApiError(0).
OK == 200
FailStatuses == {401, 500, 0}

isAuthenticated == user # NULL
isAdmin == Role(user) \in {"admin", "super-admin"}

None == [op |-> "none"]

\* Conversation ids are 1..MaxConvs in order of creation; NoConv is 'undefined'.
ConvIds == 1..MaxConvs
NoConv == 0
NoSend == [n |-> 0, closureConv |-> NoConv, conv |-> NoConv, before |-> <<>>,
           undisturbed |-> TRUE]

----------------------------------------------------------------------------
(* Auth session store *)

\* applyUser(nextUser); tok is the stored token when applyUser is entered
ApplyUser(nextUser, tok) ==
    /\ user' = nextUser
    /\ userId' = nextUser
    /\ token' = IF USE_MOCK_AUTH
                THEN (IF nextUser # NULL THEN MOCK_TOKEN ELSE NULL)
                ELSE tok
    /\ lastActivity' = IF nextUser # NULL THEN now ELSE lastActivity

\* the chat page is not on screen
ChatIdle ==
    /\ messages = <<>>
    /\ conversations = {}
    /\ currentConversationId = NoConv
    /\ isLoading = FALSE
    /\ error = ""
    /\ sendCtx = NoSend
    /\ sentCount = 0
    /\ deleteCount = 0
    /\ net = EmptyBag
    /\ srvConvs = {}
    /\ srvMsgs = [c \in ConvIds |-> <<>>]
    /\ srvCreated = 0

\* DEFAULT_MODELS
DEFAULT_MODELS == {"GPT-2 (Local)", "GPT-3.5 Turbo", "GPT-4", "GPT-4o Mini"}

\* the admin page is not on screen
AdminIdle ==
    /\ settings = <<>>
    /\ modelOptions = DEFAULT_MODELS
    /\ adminLoading = TRUE
    /\ adminError = ""
    /\ formData = <<>>
    /\ formLoading = FALSE
    /\ saved = " "
    /\ settingsFetch = "none"
    /\ modelsFetch = "none"
    /\ settingsData = <<>>
    /\ modelsData = <<>>
    /\ putReq = <<>>
    /\ loadCount = 0
    /\ submitCount = 0

\* no ApiClient request has been made
ApiIdle ==
    /\ apiReq = <<>>
    /\ apiResult = [outcome |-> "none", thrown |-> "none", status |-> 0,
                    data |-> "undefined"]

\* TabKey; the tabs whose loadData branch awaits a single request
TabKeys == {"stats", "users", "settings", "api-keys"}
SingleFetchTabs == {"stats", "users", "api-keys"}

\* the tabs of the admin page hold no data and no load is running
TabsIdle(tab) ==
    /\ activeTab = tab
    /\ tabLoads = {}
    /\ tabSeq = 0
    /\ tabData = [t \in TabKeys |-> 0]

\* the initial state of ApiKeyManagement, under an empty key list
KeyPanelIdle ==
    /\ apiKeys = <<>>
    /\ newKeyDisplayed = <<>>
    /\ keyLoading = FALSE
    /\ keyError = ""
    /\ createReq = FALSE
    /\ createCount = 0

\* useState<TabKey>("stats")
PanelIdle == TabsIdle("stats") /\ KeyPanelIdle

\* the initial state of a password form
EmptyForm == [password |-> <<>>, confirmPassword |-> <<>>, error |-> "",
              loading |-> FALSE]

\* the initial state of ResetPasswordWithTokenPage
EmptyResetForm == [password |-> <<>>, confirmPassword |-> <<>>, error |-> "",
                   loading |-> FALSE, success |-> FALSE, validating |-> TRUE,
                   tokenValid |-> FALSE]

\* the register page and the reset-password page are not on screen
FormsIdle ==
    /\ registerForm = EmptyForm
    /\ resetForm = EmptyResetForm
    /\ validatePending = FALSE
    /\ resetPending = 0

Init ==
    /\ USE_MOCK_AUTH \in BOOLEAN
    /\ user = NULL
    /\ loading = TRUE
    /\ now = 0
    /\ lastActivity = 0
    /\ lastEvent = 0
    /\ \E s \in {<<NULL, NULL>>, <<"tokA", "alice">>, <<"tokB", "bob">>} :
          token = s[1] /\ userId = s[2]
    /\ mounted = FALSE
    /\ meReq = NoReq
    /\ loginPending = 0
    /\ registerPending = 0
    /\ logoutPending = 0
    /\ backendCalled = FALSE
    /\ location = "app"
    /\ route = "/"
    /\ ChatIdle
    /\ AdminIdle
    /\ ApiIdle
    /\ PanelIdle
    /\ FormsIdle
    /\ done = None

\* useEffect(() => { refreshUser(); }): refreshUser up to its await
Mount ==
    /\ ~mounted
    /\ mounted' = TRUE
    /\ IF USE_MOCK_AUTH
       THEN /\ ApplyUser(MOCK_USER, token)
            /\ loading' = FALSE
            /\ done' = [op |-> "refresh", status |-> OK, logged |-> FALSE,
                        fetched |-> MOCK_USER]
            /\ UNCHANGED <<meReq, backendCalled>>
       ELSE /\ meReq' = token
            /\ backendCalled' = TRUE
            /\ done' = [op |-> "mount"]
            /\ UNCHANGED <<user, userId, token, lastActivity, loading>>
    /\ UNCHANGED <<USE_MOCK_AUTH, now, lastEvent, loginPending, registerPending,
                   logoutPending, location, route, chatVars, pageVars>>

\* A refreshUser that logs every failure, 401 included
RefreshLogsError_All(st) == st # OK

\* refreshUser's catch: error instanceof ApiError && error.status !== 401
\* (every failure of ApiClient.request is an ApiError)
RefreshLogsError(st) == st # OK /\ st # 401

\* authApi.getCurrentUser settles with status st (body u when OK):
\* the try / catch / finally of refreshUser

RefreshUserSettle(st, u) ==
    /\ ApplyUser(IF st = OK THEN u ELSE NULL, token)
    /\ loading' = FALSE
    /\ done' = [op |-> "refresh", status |-> st, logged |-> RefreshLogsError(st),
                fetched |-> IF st = OK THEN u ELSE NULL]

\* The backend answers GET /auth/me; it accepts only a request that carries a token.
RefreshUserResponse ==
    /\ meReq # NoReq
    /\ \E st \in (IF meReq # NULL THEN {OK} ELSE {}) \cup FailStatuses :
       \E u \in BackendUsers :
          RefreshUserSettle(st, u)
    /\ meReq' = NoReq
    /\ UNCHANGED <<USE_MOCK_AUTH, now, lastEvent, mounted, loginPending,
                   registerPending, logoutPending, backendCalled, location, route, chatVars, pageVars>>

\* A login without the bypass branch: it always asks the backend
Login_NoBypass(cred) ==
    /\ mounted
    /\ loginPending < MaxPending
    /\ loginPending' = loginPending + 1
    /\ backendCalled' = TRUE
    /\ done' = [op |-> "loginCall", cred |-> cred]
    /\ UNCHANGED <<user, userId, token, lastActivity>>
    /\ UNCHANGED <<USE_MOCK_AUTH, loading, now, lastEvent, mounted, meReq,
                   registerPending, logoutPending, location, route, chatVars, pageVars>>

\* login(credentials) up to its await
Login(cred) ==
    /\ mounted
    /\ IF USE_MOCK_AUTH
       THEN /\ ApplyUser(MOCK_USER, token)
            /\ done' = [op |-> "login", result |-> "resolved", status |-> OK,
                        cred |-> cred, fetched |-> MOCK_USER, tok |-> MOCK_TOKEN,
                        thrown |-> "none"]
            /\ UNCHANGED <<loginPending, backendCalled>>
       ELSE /\ loginPending < MaxPending
            /\ loginPending' = loginPending + 1
            /\ backendCalled' = TRUE
            /\ done' = [op |-> "loginCall", cred |-> cred]
            /\ UNCHANGED <<user, userId, token, lastActivity>>
    /\ UNCHANGED <<USE_MOCK_AUTH, loading, now, lastEvent, mounted, meReq,
                   registerPending, logoutPending, location, route, chatVars, pageVars>>

\* authApi.login / authApi.register after the POST has returned a body with
\* token t: apiClient.setToken(response.token) (a missing token removes the entry)
AuthApiLoginToken_Skipped(t) == token

AuthApiLoginToken(t) == t

\* authApi.login / authApi.register settle with status st and, when OK, a body
\* with user u and token t (NULL for a field the body lacks), then the rest of
\* login / register.  A failed request throws an ApiError, which login rethrows.
\* A 2xx body without a user makes response.user.id throw a TypeError after
\* setToken has run; login replaces it by a generic Error.
AuthSettle(opname, st, u, t) ==
    IF st = OK /\ u # NULL
    THEN /\ ApplyUser(u, AuthApiLoginToken(t))
         /\ done' = [op |-> opname, result |-> "resolved", status |-> st,
                     cred |-> "sent", fetched |-> u, tok |-> t, thrown |-> "none"]
    ELSE IF st = OK
    THEN /\ token' = AuthApiLoginToken(t)
         /\ done' = [op |-> opname, result |-> "rejected", status |-> st,
                     cred |-> "sent", fetched |-> NULL, tok |-> t, thrown |-> "Error"]
         /\ UNCHANGED <<user, userId, lastActivity>>
    ELSE /\ done' = [op |-> opname, result |-> "rejected", status |-> st,
                     cred |-> "sent", fetched |-> NULL, tok |-> NULL,
                     thrown |-> "ApiError"]
         /\ UNCHANGED <<user, userId, token, lastActivity>>

\* the user and token fields of the body of an AuthResponse with status st
ResponseUsers(st) == IF st = OK THEN BackendUsers \cup {NULL} ELSE {NULL}
ResponseTokens(st) == IF st = OK THEN Tokens \cup {NULL} ELSE {NULL}

LoginResponse ==
    /\ loginPending > 0
    /\ loginPending' = loginPending - 1
    /\ \E st \in {OK} \cup FailStatuses : \E u \in ResponseUsers(st) :
       \E t \in ResponseTokens(st) :
          AuthSettle("login", st, u, t)
    /\ UNCHANGED <<USE_MOCK_AUTH, loading, now, lastEvent, mounted, meReq,
                   registerPending, logoutPending, backendCalled, location, route, chatVars, pageVars>>

\* register(data) up to its await
RegisterCall ==
    /\ mounted
    /\ IF USE_MOCK_AUTH
       THEN /\ ApplyUser(MOCK_USER, token)
            /\ done' = [op |-> "register", result |-> "resolved", status |-> OK,
                        cred |-> "data", fetched |-> MOCK_USER, tok |-> MOCK_TOKEN,
                        thrown |-> "none"]
            /\ UNCHANGED <<registerPending, backendCalled>>
       ELSE /\ registerPending < MaxPending
            /\ registerPending' = registerPending + 1
            /\ backendCalled' = TRUE
            /\ done' = [op |-> "registerCall"]
            /\ UNCHANGED <<user, userId, token, lastActivity>>
    /\ UNCHANGED <<USE_MOCK_AUTH, loading, now, lastEvent, mounted, meReq,
                   loginPending, logoutPending, location>>

\* register(data) called from outside the register page
Register == RegisterCall /\ UNCHANGED <<route, chatVars, pageVars>>

\* authApi.register settles, then the rest of register
RegisterSettled ==
    /\ registerPending > 0
    /\ registerPending' = registerPending - 1
    /\ \E st \in {OK} \cup FailStatuses : \E u \in ResponseUsers(st) :
       \E t \in ResponseTokens(st) :
          AuthSettle("register", st, u, t)
    /\ UNCHANGED <<USE_MOCK_AUTH, loading, now, lastEvent, mounted, meReq,
                   loginPending, logoutPending, backendCalled, location>>

RegisterResponse == RegisterSettled /\ UNCHANGED <<route, chatVars, pageVars>>

\* logout() up to its await
LogoutCall ==
    /\ mounted
    /\ IF USE_MOCK_AUTH
       THEN /\ ApplyUser(NULL, token)
            /\ done' = [op |-> "logout", result |-> "resolved", status |-> OK,
                        logged |-> FALSE]
            /\ UNCHANGED <<logoutPending, backendCalled>>
       ELSE /\ logoutPending < MaxPending
            /\ logoutPending' = logoutPending + 1
            /\ backendCalled' = TRUE
            /\ done' = [op |-> "logoutCall"]
            /\ UNCHANGED <<user, userId, token, lastActivity>>
    /\ UNCHANGED <<USE_MOCK_AUTH, loading, now, lastEvent, mounted, meReq,
                   loginPending, registerPending, location>>

Logout == LogoutCall /\ UNCHANGED <<route, chatVars, pageVars>>

\* authApi.logout: the stored token once POST /auth/logout has settled with st
AuthApiLogoutToken(st, tok) == IF st = OK THEN NULL ELSE tok

\* A logout whose finally block is missing: a failure leaves the user in place
\* and rejects.
LogoutSettle_NoFinally(st) ==
    IF st = OK
    THEN /\ ApplyUser(NULL, NULL)
         /\ done' = [op |-> "logout", result |-> "resolved", status |-> st,
                     logged |-> FALSE]
    ELSE /\ done' = [op |-> "logout", result |-> "rejected", status |-> st,
                     logged |-> TRUE]
         /\ UNCHANGED <<user, userId, token, lastActivity>>

\* the try / catch / finally of logout
LogoutSettle(st) ==
    /\ ApplyUser(NULL, AuthApiLogoutToken(st, token))
    /\ done' = [op |-> "logout", result |-> "resolved", status |-> st,
                logged |-> (st # OK)]

LogoutResponse ==
    /\ logoutPending > 0
    /\ logoutPending' = logoutPending - 1
    /\ \E st \in {OK} \cup FailStatuses : LogoutSettle(st)
    /\ UNCHANGED <<USE_MOCK_AUTH, loading, now, lastEvent, mounted, meReq,
                   loginPending, registerPending, backendCalled, location, route, chatVars, pageVars>>

----------------------------------------------------------------------------
(* Session timeout watchdog *)

\* window.location.href after a timeout
TimeoutRedirect == "/login?reason=timeout"

\* if (!user || USE_MOCK_AUTH) return;
WatchdogActive == user # NULL /\ ~USE_MOCK_AUTH

\* A checkTimeout that only ever warns
CheckTimeout_WarnOnly(t) ==
    IF t - lastActivity >= SESSION_TIMEOUT_MIN - WARNING_TIME_MIN THEN "warn" ELSE "none"

\* checkTimeout at time t: "logout", "warn" or "none"
CheckTimeout(t) ==
    LET timeSinceActivity == t - lastActivity IN
    IF timeSinceActivity >= SESSION_TIMEOUT_MIN THEN "logout"
    ELSE IF timeSinceActivity >= SESSION_TIMEOUT_MIN - WARNING_TIME_MIN THEN "warn"
    ELSE "none"

\* TickIntervals check intervals elapse; while the watchdog is installed the
\* interval callback checkTimeout runs.
Tick ==
    /\ mounted
    /\ now + TickIntervals * CHECK_INTERVAL_MIN <= MaxNow
    /\ now' = now + TickIntervals * CHECK_INTERVAL_MIN
    /\ IF WatchdogActive /\ CheckTimeout(now') = "logout"
       THEN /\ logoutPending < MaxPending
            /\ logoutPending' = logoutPending + 1
            /\ backendCalled' = TRUE
            /\ location' = TimeoutRedirect
            /\ done' = [op |-> "timeout"]
       ELSE /\ done' = [op |-> IF WatchdogActive /\ CheckTimeout(now') = "warn"
                               THEN "warn" ELSE "tick"]
            /\ UNCHANGED <<logoutPending, backendCalled, location>>
    /\ UNCHANGED <<USE_MOCK_AUTH, user, loading, lastActivity, token, userId,
                   lastEvent, mounted, meReq, loginPending, registerPending, route, chatVars, pageVars>>

\* An updateActivity that records nothing
UpdateActivity_Dropped == lastActivity

\* updateActivity: the listeners exist only while the watchdog is installed
UpdateActivity == IF WatchdogActive THEN now ELSE lastActivity

\* a mousedown / keydown / scroll / touchstart event
Activity ==
    /\ mounted
    /\ lastEvent' = now
    /\ lastActivity' = UpdateActivity
    /\ done' = [op |-> "activity"]
    /\ UNCHANGED <<USE_MOCK_AUTH, user, loading, token, userId, now, mounted,
                   meReq, loginPending, registerPending, logoutPending,
                   backendCalled, location, route, chatVars, pageVars>>

----------------------------------------------------------------------------
(* Route guard and the pages behind it *)

Routes == {"/", "/login", "/chat", "/admin"}

\* a guard that does not wait for the session check to finish
ProtectedRoute_NoSpinner(requireAdmin) ==
    IF USE_MOCK_AUTH THEN "children"
    ELSE IF ~isAuthenticated \/ (requireAdmin /\ ~isAdmin) THEN "null"
    ELSE "children"

\* what ProtectedRoute renders: "children", "spinner" or "null"
ProtectedRoute(requireAdmin) ==
    IF USE_MOCK_AUTH THEN "children"
    ELSE IF loading THEN "spinner"
    ELSE IF ~isAuthenticated \/ (requireAdmin /\ ~isAdmin) THEN "null"
    ELSE "children"

\* the route ProtectedRoute's effect pushes, or the current route when it pushes none
ProtectedRouteTarget(requireAdmin) ==
    IF USE_MOCK_AUTH THEN route
    ELSE IF ~loading
         THEN (IF ~isAuthenticated THEN "/login"
               ELSE IF requireAdmin /\ ~isAdmin THEN "/chat"
               ELSE route)
         ELSE route

\* AdminPage: <ProtectedRoute> without requireAdmin
AdminPageRequireAdmin == FALSE
\* ChatPage: <ProtectedRoute>
ChatPageRequireAdmin == FALSE

RequireAdminOf(r) == IF r = "/admin" THEN AdminPageRequireAdmin ELSE ChatPageRequireAdmin

\* AdminPageContent is on screen
AdminContentRendered ==
    route = "/admin" /\ ProtectedRoute(AdminPageRequireAdmin) = "children"

\* the user opens a route (link or address bar, without reloading the app)
Navigate(r) ==
    /\ mounted
    /\ r # route
    /\ route' = r
    /\ done' = [op |-> "navigate"]
    /\ UNCHANGED <<authVars, chatVars, pageVars>>

\* the effect of ProtectedRoute on a protected page
ProtectedRouteEffect ==
    /\ mounted
    /\ route \in {"/chat", "/admin"}
    /\ ProtectedRouteTarget(RequireAdminOf(route)) # route
    /\ route' = ProtectedRouteTarget(RequireAdminOf(route))
    /\ done' = [op |-> "redirect"]
    /\ UNCHANGED <<authVars, chatVars, pageVars>>

RouteNext ==
    \/ Mount
    \/ RefreshUserResponse
    \/ \E cred \in Credentials : Login(cred)
    \/ LoginResponse
    \/ Register
    \/ RegisterResponse
    \/ Logout
    \/ LogoutResponse
    \/ \E r \in Routes : Navigate(r)
    \/ ProtectedRouteEffect

SpecRoute == Init /\ [][RouteNext]_vars

----------------------------------------------------------------------------
(* Chat page controller and the chat backend *)

\* A failed chat request is an ApiError; the page treats every status alike.
ChatFail == {500}

UserMsg(n, c) == [role |-> "user", n |-> n, conv |-> c]
AssistantMsg(n, c) == [role |-> "assistant", n |-> n, conv |-> c]

\* An outstanding request.  The backend handles it at the moment its response
\* is delivered; responses are delivered in any order.
\*   kind  "list" | "history" | "send" | "delete"
\*   conv  the conversation id sent (NoConv: none)
\*   cont  for a list request, the code that awaits it
\*   n     for a send, the number of the message
\*   sel   for a delete, currentConversationId === conversationId in the closure
Req(kind, conv, cont, n, sel) ==
    [kind |-> kind, conv |-> conv, cont |-> cont, n |-> n, sel |-> sel]

\* chatApi.getConversations() as called by loadConversations
ListReq(cont, conv, sel) == Req("list", conv, cont, 0, sel)
\* chatApi.getConversationHistory(conversationId)
HistoryReq(conv) == Req("history", conv, "none", 0, FALSE)

Issue(bag, r) == bag (+) SetToBag({r})
Take(bag, r) == bag (-) SetToBag({r})

\* The effect on [currentConversationId, user] after the selection changed from
\* old to new: the history request it issues (as a bag)
HistoryEffectReqs(old, new) ==
    IF user # NULL /\ new # old /\ new # NoConv
    THEN SetToBag({HistoryReq(new)}) ELSE EmptyBag

\* The chat page mounts for an authenticated user: the [user] effect has called
\* loadConversations.  The backend holds no conversation or one earlier exchange.
ChatOpened(mock) ==
    /\ USE_MOCK_AUTH = mock
    /\ user = IF mock THEN MOCK_USER ELSE "alice"
    /\ loading = FALSE
    /\ now = 0
    /\ lastActivity = 0
    /\ lastEvent = 0
    /\ token = IF mock THEN NULL ELSE "tokA"
    /\ userId = user
    /\ mounted = TRUE
    /\ meReq = NoReq
    /\ loginPending = 0
    /\ registerPending = 0
    /\ logoutPending = 0
    /\ backendCalled = TRUE
    /\ location = "app"
    /\ route = "/chat"
    /\ messages = <<>>
    /\ conversations = {}
    /\ currentConversationId = NoConv
    /\ isLoading = FALSE
    /\ error = ""
    /\ sendCtx = NoSend
    /\ sentCount = 0
    /\ deleteCount = 0
    /\ net = SetToBag({ListReq("init", NoConv, FALSE)})
    /\ \E existing \in BOOLEAN :
          IF existing
          THEN /\ srvConvs = {1}
               /\ srvMsgs = [c \in ConvIds |->
                               IF c = 1 THEN <<UserMsg(0, 1), AssistantMsg(0, 1)>>
                               ELSE <<>>]
               /\ srvCreated = 1
          ELSE /\ srvConvs = {}
               /\ srvMsgs = [c \in ConvIds |-> <<>>]
               /\ srvCreated = 0
    /\ AdminIdle
    /\ ApiIdle
    /\ PanelIdle
    /\ FormsIdle
    /\ done = None

\* the chat page of the signed-in user alice, in non-bypass mode
ChatInit == ChatOpened(FALSE)

\* The text of the chat input, as a sequence of characters
Whitespace == {" ", "\n"}
InputValues == {<<>>, <<" ">>, <<" ", "h", "i", "\n">>, <<"h", " ", "i">>}

RECURSIVE TrimStart(_)
TrimStart(s) ==
    IF s # <<>> /\ Head(s) \in Whitespace THEN TrimStart(Tail(s)) ELSE s

RECURSIVE TrimEnd(_)
TrimEnd(s) ==
    IF s # <<>> /\ s[Len(s)] \in Whitespace
    THEN TrimEnd(SubSeq(s, 1, Len(s) - 1)) ELSE s

\* a trim that strips the leading whitespace only
Trim_StartOnly(s) == TrimStart(s)

\* inputValue.trim()
Trim(s) == TrimEnd(TrimStart(s))

\* ChatWindow.handleSend with inputValue in the input (it returns at once on a
\* blank input or while a send is running), then handleSendMessage up to its
\* await
SendMessage(inputValue) ==
    /\ Trim(inputValue) # <<>>
    /\ ~isLoading
    /\ sentCount < MaxSends
    /\ BagCardinality(net) < MaxNet
    /\ IF user = NULL
       THEN /\ error' = "You must be logged in to send a message."
            /\ done' = [op |-> "sendRefused"]
            /\ UNCHANGED <<isLoading, sendCtx, sentCount, net>>
       ELSE /\ isLoading' = TRUE
            /\ error' = ""
            /\ sentCount' = sentCount + 1
            /\ sendCtx' = [NoSend EXCEPT !.n = sentCount + 1,
                                         !.closureConv = currentConversationId]
            /\ net' = Issue(net, Req("send", currentConversationId, "none",
                                     sentCount + 1, FALSE))
            /\ done' = [op |-> "sendCall", input |-> inputValue,
                        text |-> Trim(inputValue)]
    /\ UNCHANGED <<authVars, route, pageVars, messages, conversations, currentConversationId,
                   deleteCount, srvConvs, srvMsgs, srvCreated>>

\* POST /chat/message for request r is accepted: the conversation it lands in
SendTarget(r) == IF r.conv = NoConv THEN srvCreated + 1 ELSE r.conv

\* a catch block that sets an empty error text
SendErrorText_Empty(st) == ""

\* the catch of handleSendMessage: err.message || "Failed to send message"
\* (every failure of the request is an ApiError with a non-empty message)
SendErrorText(st) == "Failed to send message"

\* chatApi.sendMessage settles with status st: handleSendMessage from its first
\* await to the next await (new conversation), to the last await (selected
\* conversation) or through catch and finally (failure)
SendSettle(r, st) ==
    IF st = OK
    THEN LET c == SendTarget(r)
             userMessage == UserMsg(r.n, c)
             reply == AssistantMsg(r.n, c)
         IN
         IF r.conv = NoConv
         THEN /\ messages' = Append(messages, userMessage)
              /\ currentConversationId' = c
              /\ net' = Take(net, r)
                          (+) SetToBag({ListReq("send1", NoConv, FALSE)})
                          (+) HistoryEffectReqs(currentConversationId, c)
              /\ sendCtx' = [sendCtx EXCEPT !.conv = c, !.before = messages]
              /\ done' = [op |-> "sendUserAppended"]
              /\ UNCHANGED <<isLoading, error>>
         ELSE /\ messages' = Append(Append(messages, userMessage), reply)
              /\ net' = Issue(Take(net, r), ListReq("send2", NoConv, FALSE))
              /\ sendCtx' = [sendCtx EXCEPT !.conv = c, !.before = messages]
              /\ done' = [op |-> "sendAppended"]
              /\ UNCHANGED <<currentConversationId, isLoading, error>>
    ELSE /\ error' = SendErrorText(st)
         /\ isLoading' = FALSE
         /\ net' = Take(net, r)
         /\ sendCtx' = NoSend
         /\ done' = [op |-> "sendFailed", chatStatus |-> st]
         /\ UNCHANGED <<messages, currentConversationId>>

\* the backend's part of POST /chat/message: it stores the user message and its reply
DeliverSend(r, st) ==
    /\ BagIn(r, net)
    /\ r.kind = "send"
    /\ IF st = OK
       THEN /\ IF r.conv = NoConv THEN srvCreated < MaxConvs ELSE r.conv \in srvConvs
            /\ srvConvs' = srvConvs \cup {SendTarget(r)}
            /\ srvCreated' = IF r.conv = NoConv THEN srvCreated + 1 ELSE srvCreated
            /\ srvMsgs' = [srvMsgs EXCEPT ![SendTarget(r)] =
                              @ \o <<UserMsg(r.n, SendTarget(r)),
                                     AssistantMsg(r.n, SendTarget(r))>>]
       ELSE UNCHANGED <<srvConvs, srvMsgs, srvCreated>>
    /\ SendSettle(r, st)
    /\ UNCHANGED <<authVars, route, pageVars, conversations, sentCount, deleteCount>>

\* chatApi.getConversations settles with status st: the rest of
\* loadConversations, then the code that awaited it
ListSettle(r, st) ==
    /\ conversations' = IF st = OK THEN srvConvs ELSE conversations
    /\ CASE r.cont = "send1" ->
              /\ messages' = Append(messages, AssistantMsg(sendCtx.n, sendCtx.conv))
              /\ net' = Issue(Take(net, r), ListReq("send2", NoConv, FALSE))
              /\ done' = [op |-> "sendAppended", chatStatus |-> st]
              /\ UNCHANGED <<isLoading, sendCtx>>
         [] r.cont = "send2" ->
              /\ isLoading' = FALSE
              /\ sendCtx' = NoSend
              /\ net' = Take(net, r)
              /\ done' = [op |-> "sendDone", chatStatus |-> st]
              /\ UNCHANGED messages
         [] r.cont = "delete" ->
              /\ net' = Take(net, r)
              /\ done' = [op |-> "deleteDone", conv |-> r.conv, sel |-> r.sel,
                          chatStatus |-> st]
              /\ UNCHANGED <<messages, isLoading, sendCtx>>
         [] OTHER ->
              /\ net' = Take(net, r)
              /\ done' = [op |-> "listLoaded", chatStatus |-> st]
              /\ UNCHANGED <<messages, isLoading, sendCtx>>

DeliverList(r, st) ==
    /\ BagIn(r, net)
    /\ r.kind = "list"
    /\ ListSettle(r, st)
    /\ UNCHANGED <<authVars, route, pageVars, currentConversationId, error, sentCount,
                   deleteCount, srvConvs, srvMsgs, srvCreated>>

\* chatApi.getConversationHistory settles with status st: the rest of
\* loadConversationHistory
DeliverHistory(r, st) ==
    /\ BagIn(r, net)
    /\ r.kind = "history"
    /\ st = OK => r.conv \in srvConvs
    /\ net' = Take(net, r)
    /\ IF st = OK
       THEN /\ messages' = srvMsgs[r.conv]
            /\ UNCHANGED error
       ELSE /\ error' = "Failed to load conversation"
            /\ UNCHANGED messages
    /\ done' = [op |-> "historyLoaded", chatStatus |-> st]
    /\ UNCHANGED <<authVars, route, pageVars, conversations, currentConversationId, isLoading,
                   sendCtx, sentCount, deleteCount, srvConvs, srvMsgs, srvCreated>>

\* handleSelectConversation and the effect it triggers
SelectConversation(c) ==
    /\ c \in conversations
    /\ c # currentConversationId
    /\ BagCardinality(net) < MaxNet
    /\ currentConversationId' = c
    /\ net' = net (+) HistoryEffectReqs(currentConversationId, c)
    /\ sendCtx' = [sendCtx EXCEPT !.undisturbed = FALSE]
    /\ done' = [op |-> "select"]
    /\ UNCHANGED <<authVars, route, pageVars, messages, conversations, isLoading, error,
                   sentCount, deleteCount, srvConvs, srvMsgs, srvCreated>>

\* handleNewConversation (the effect that follows sets the empty list again)
NewConversation ==
    /\ currentConversationId' = NoConv
    /\ messages' = <<>>
    /\ error' = ""
    /\ sendCtx' = [sendCtx EXCEPT !.undisturbed = FALSE]
    /\ done' = [op |-> "new"]
    /\ UNCHANGED <<authVars, route, pageVars, conversations, isLoading, sentCount,
                   deleteCount, net, srvConvs, srvMsgs, srvCreated>>

\* handleDeleteConversation up to its await; sel is the comparison
\* currentConversationId === conversationId as the handler's closure sees it
DeleteConversation(c) ==
    /\ c \in conversations
    /\ deleteCount < MaxDeletes
    /\ BagCardinality(net) < MaxNet
    /\ deleteCount' = deleteCount + 1
    /\ net' = Issue(net, Req("delete", c, "none", 0, currentConversationId = c))
    /\ sendCtx' = [sendCtx EXCEPT !.undisturbed = FALSE]
    /\ done' = [op |-> "deleteCall"]
    /\ UNCHANGED <<authVars, route, pageVars, messages, conversations, currentConversationId,
                   isLoading, error, sentCount, srvConvs, srvMsgs, srvCreated>>

\* chatApi.deleteConversation settles with status st: handleDeleteConversation
\* from its first await to its second (success) or through its catch (failure)
DeleteSettle(r, st) ==
    IF st = OK
    THEN /\ currentConversationId' = IF r.sel THEN NoConv ELSE currentConversationId
         /\ messages' = IF r.sel THEN <<>> ELSE messages
         /\ net' = Issue(Take(net, r), ListReq("delete", r.conv, r.sel))
         /\ done' = [op |-> "deleteOk", conv |-> r.conv, sel |-> r.sel,
                     chatStatus |-> st]
    ELSE /\ net' = Take(net, r)
         /\ done' = [op |-> "deleteFailed", conv |-> r.conv, sel |-> r.sel,
                     chatStatus |-> st]
         /\ UNCHANGED <<currentConversationId, messages>>

\* the backend's part of DELETE /chat/conversations/{id}
DeliverDelete(r, st) ==
    /\ BagIn(r, net)
    /\ r.kind = "delete"
    /\ IF st = OK
       THEN /\ r.conv \in srvConvs
            /\ srvConvs' = srvConvs \ {r.conv}
            /\ srvMsgs' = [srvMsgs EXCEPT ![r.conv] = <<>>]
       ELSE UNCHANGED <<srvConvs, srvMsgs>>
    /\ DeleteSettle(r, st)
    /\ sendCtx' = [sendCtx EXCEPT !.undisturbed = FALSE]
    /\ UNCHANGED <<authVars, route, pageVars, conversations, isLoading, error, sentCount,
                   deleteCount, srvCreated>>

\* the close button of the error banner
DismissError ==
    /\ error # ""
    /\ error' = ""
    /\ done' = [op |-> "dismiss"]
    /\ UNCHANGED <<authVars, route, pageVars, messages, conversations, currentConversationId,
                   isLoading, sendCtx, sentCount, deleteCount, net, srvConvs,
                   srvMsgs, srvCreated>>

ChatNext ==
    \/ \E inputValue \in InputValues : SendMessage(inputValue)
    \/ \E r \in BagToSet(net) : \E st \in {OK} \cup ChatFail : DeliverSend(r, st)
    \/ \E r \in BagToSet(net) : \E st \in {OK} \cup ChatFail : DeliverList(r, st)
    \/ \E r \in BagToSet(net) : \E st \in {OK} \cup ChatFail : DeliverHistory(r, st)
    \/ \E c \in ConvIds : SelectConversation(c)
    \/ NewConversation
    \/ \E c \in ConvIds : DeleteConversation(c)
    \/ \E r \in BagToSet(net) : \E st \in {OK} \cup ChatFail : DeliverDelete(r, st)
    \/ DismissError

SpecChat == ChatInit /\ [][ChatNext]_vars

\* ChatPageContent is on screen
ChatPageShown ==
    route = "/chat" /\ ProtectedRoute(ChatPageRequireAdmin) = "children"

\* handleLogout up to its await of logout().  In bypass mode logout() sets the
\* user to null at once, the page stays mounted and its [user] effect clears
\* the conversation list, the selection and the messages.
ChatLogout ==
    /\ ChatPageShown
    /\ user # NULL
    /\ LogoutCall
    /\ IF USE_MOCK_AUTH
       THEN /\ conversations' = {}
            /\ currentConversationId' = NoConv
            /\ messages' = <<>>
       ELSE UNCHANGED <<conversations, currentConversationId, messages>>
    /\ UNCHANGED <<route, pageVars, isLoading, error, sendCtx, sentCount,
                   deleteCount, net, srvConvs, srvMsgs, srvCreated>>

\* the navigation started by router.push("/") at the end of handleLogout
\* completes: the chat page is left
ChatLeave ==
    /\ route = "/chat"
    /\ user = NULL
    /\ logoutPending = 0
    /\ route' = "/"
    /\ done' = [op |-> "leave"]
    /\ UNCHANGED <<authVars, chatVars, pageVars>>

\* The chat page with its logout button, in bypass and in non-bypass mode;
\* the handlers and the continuations of ChatPageContent run while it is on
\* screen.
ChatLogoutInit == \E mock \in BOOLEAN : ChatOpened(mock)

ChatLogoutNext ==
    \/ ChatPageShown /\ ChatNext
    \/ ChatLogout
    \/ LogoutResponse
    \/ ChatLeave

SpecChatLogout == ChatLogoutInit /\ [][ChatLogoutNext]_vars

----------------------------------------------------------------------------
(* Admin page: the settings tab and the system settings form *)

Min(a, b) == IF a <= b THEN a ELSE b
Max(a, b) == IF a >= b THEN a ELSE b

\* Temperatures are counted in hundredths: 200 is the source's 2.
TEMPERATURE_MIN == 0
TEMPERATURE_MAX == 200
MAX_TOKENS_MIN == 1
MAX_TOKENS_MAX == 4096

\* SystemSettings (model, temperature, maxTokens, rateLimit; the system prompt
\* is a string that every step copies unchanged)
SystemSettings(m, t, k, r) ==
    [model |-> m, temperature |-> t, maxTokens |-> k, rateLimit |-> r]

\* Bodies of GET /admin/settings: the backend may hold values outside the
\* ranges of the form.
BackendSettings ==
    { SystemSettings("GPT-4", 70, 512, 60),
      SystemSettings("Llama-3 (Local)", 500, 0, 0),
      SystemSettings("GPT-4", -50, 9000, -5) }

\* Fulfilled values of adminApi.getAvailableModels(): <<>> is a body without a
\* 'models' field (undefined), <<list>> a list of model names.
BackendModels == { <<>>, <<{}>>, <<{"GPT-4", "Llama-3 (Local)"}>> }

\* Values the inputs of the form deliver to their onChange handlers: the range
\* input for the temperature stays within its min and max; the number inputs
\* deliver parseInt(value) || 0, which is 0 for an emptied field.
TemperatureInputs == {0, 200}
MaxTokensInputs == {0, 4097}
RateLimitInputs == {0, 1}

\* a maxTokens clamp that is off by one step at each application
ClampMaxTokens_Drifting(k) == Min(MAX_TOKENS_MAX + 1, Max(MAX_TOKENS_MIN, k + 1))

\* Math.min(4096, Math.max(1, formData.maxTokens))
ClampMaxTokens(k) == Min(MAX_TOKENS_MAX, Max(MAX_TOKENS_MIN, k))

\* a temperature clamp without the upper limit
ClampTemperature_NoCap(t) == Max(TEMPERATURE_MIN, t)

\* Math.min(2, Math.max(0, formData.temperature))
ClampTemperature(t) == Min(TEMPERATURE_MAX, Max(TEMPERATURE_MIN, t))

\* the payload handleSubmit builds from the form data f
Payload(f) ==
    [f EXCEPT !.temperature = ClampTemperature(f.temperature),
              !.maxTokens = ClampMaxTokens(f.maxTokens)]

\* the settings form is on screen
FormRendered == ~adminLoading /\ settings # <<>>

\* The admin page is open on the settings tab for the admin bob; loadData has
\* not run yet.
AdminInit ==
    /\ USE_MOCK_AUTH = FALSE
    /\ user = "bob"
    /\ loading = FALSE
    /\ now = 0
    /\ lastActivity = 0
    /\ lastEvent = 0
    /\ token = "tokB"
    /\ userId = "bob"
    /\ mounted = TRUE
    /\ meReq = NoReq
    /\ loginPending = 0
    /\ registerPending = 0
    /\ logoutPending = 0
    /\ backendCalled = TRUE
    /\ location = "app"
    /\ route = "/admin"
    /\ ChatIdle
    /\ AdminIdle
    /\ ApiIdle
    /\ TabsIdle("settings")
    /\ KeyPanelIdle
    /\ FormsIdle
    /\ done = None

\* A failed admin request is an ApiError (HTTP status or 0)
AdminFail == {403, 0}

\* modelsData || DEFAULT_MODELS, merged with the model of the fetched settings
MergedModels(md, m) == (IF md = <<>> THEN DEFAULT_MODELS ELSE md[1]) \cup {m}

\* a join that does not wait for the models fetch
JoinReady_SettingsOnly(sf, mf) == sf = "ok"

\* Promise.all([settings, models.catch(...)]) is fulfilled
JoinReady(sf, mf) == sf = "ok" /\ mf \in {"ok", "failed"}

\* loadData on the settings tab up to its await: both fetches are issued; the
\* spinner replaces the tab content, so the form unmounts.  One loadData runs
\* at a time.
LoadData ==
    /\ loadCount < MaxLoads
    /\ settingsFetch # "pending" /\ modelsFetch # "pending"
    /\ loadCount' = loadCount + 1
    /\ adminLoading' = TRUE
    /\ adminError' = ""
    /\ settingsFetch' = "pending"
    /\ modelsFetch' = "pending"
    /\ settingsData' = <<>>
    /\ modelsData' = <<>>
    /\ formData' = <<>>
    /\ formLoading' = FALSE
    /\ saved' = " "
    /\ done' = [op |-> "loadData"]
    /\ UNCHANGED <<authVars, route, chatVars, apiVars, formVars, panelVars,
                   settings, modelOptions, putReq,
                   submitCount>>

\* The rest of loadData once a fetch has settled, the fetches being in states
\* sf and mf with values sd and md: the code after the await when Promise.all
\* is fulfilled, the catch when the settings fetch has failed, then finally.
LoadDataJoin(sf, mf, sd, md) ==
    IF JoinReady(sf, mf)
    THEN /\ settings' = sd
         /\ modelOptions' = MergedModels(md, sd[1].model)
         /\ adminLoading' = FALSE
         /\ formData' = sd
         /\ done' = [op |-> "settingsLoaded"]
         /\ UNCHANGED adminError
    ELSE IF sf = "failed"
    THEN /\ adminError' = "Failed to load data"
         /\ adminLoading' = FALSE
         /\ formData' = settings
         /\ done' = [op |-> "settingsLoadFailed"]
         /\ UNCHANGED <<settings, modelOptions>>
    ELSE /\ done' = [op |-> "fetchSettled"]
         /\ UNCHANGED <<settings, modelOptions, adminLoading, adminError, formData>>

\* adminApi.getSystemSettings() settles
SettingsFetchSettle(st, body) ==
    /\ settingsFetch = "pending"
    /\ settingsFetch' = IF st = OK THEN "ok" ELSE "failed"
    /\ settingsData' = IF st = OK THEN <<body>> ELSE <<>>
    /\ LoadDataJoin(settingsFetch', modelsFetch, settingsData', modelsData)
    /\ UNCHANGED <<authVars, route, chatVars, apiVars, formVars, panelVars,
                   formLoading, saved, modelsFetch,
                   modelsData, putReq, loadCount, submitCount>>

\* adminApi.getAvailableModels().catch(() => DEFAULT_MODELS) settles
ModelsFetchSettle(st, body) ==
    /\ modelsFetch = "pending"
    /\ modelsFetch' = IF st = OK THEN "ok" ELSE "failed"
    /\ modelsData' = IF st = OK THEN body ELSE <<DEFAULT_MODELS>>
    /\ IF settingsFetch = "failed"
       THEN /\ done' = [op |-> "fetchSettled"]
            /\ UNCHANGED <<settings, modelOptions, adminLoading, adminError, formData>>
       ELSE LoadDataJoin(settingsFetch, modelsFetch', settingsData, modelsData')
    /\ UNCHANGED <<authVars, route, chatVars, apiVars, formVars, panelVars,
                   formLoading, saved, settingsFetch,
                   settingsData, putReq, loadCount, submitCount>>

\* onChange of the temperature, max tokens and rate limit inputs
SetFormField(field, v) ==
    /\ FormRendered
    /\ formData' = <<[formData[1] EXCEPT ![field] = v]>>
    /\ done' = [op |-> "edit"]
    /\ UNCHANGED <<authVars, route, chatVars, apiVars, formVars, panelVars,
                   settings, modelOptions, adminLoading,
                   adminError, formLoading, saved, settingsFetch, modelsFetch,
                   settingsData, modelsData, putReq, loadCount, submitCount>>

\* SystemSettingsForm.handleSubmit up to its await, through handleUpdateSettings
\* to the PUT.  One PUT is outstanding at a time.
SubmitSettings ==
    /\ FormRendered
    /\ ~formLoading
    /\ putReq = <<>>
    /\ submitCount < MaxSubmits
    /\ submitCount' = submitCount + 1
    /\ formLoading' = TRUE
    /\ saved' = " "
    /\ putReq' = <<[payload |-> Payload(formData[1]), mount |-> loadCount]>>
    /\ done' = [op |-> "submit", form |-> formData[1], payload |-> Payload(formData[1])]
    /\ UNCHANGED <<authVars, route, chatVars, apiVars, formVars, panelVars,
                   settings, modelOptions, adminLoading,
                   adminError, formData, settingsFetch, modelsFetch, settingsData,
                   modelsData, loadCount>>

\* adminApi.updateSystemSettings settles (the backend answers with the settings
\* it was sent): the rest of handleUpdateSettings, then of handleSubmit when
\* the form that submitted is still mounted
UpdateSettingsSettle(st) ==
    /\ putReq # <<>>
    /\ putReq' = <<>>
    /\ LET r == putReq[1]
           sameForm == formData # <<>> /\ r.mount = loadCount
       IN
       /\ settings' = IF st = OK THEN <<r.payload>> ELSE settings
       /\ adminError' = IF st = OK THEN adminError ELSE "Failed to update settings"
       /\ formData' = IF st = OK /\ formData # <<>> THEN <<r.payload>> ELSE formData
       /\ saved' = IF sameForm THEN "Settings saved" ELSE saved
       /\ formLoading' = IF sameForm THEN FALSE ELSE formLoading
       /\ done' = [op |-> IF st = OK THEN "settingsUpdated" ELSE "settingsUpdateFailed"]
    /\ UNCHANGED <<authVars, route, chatVars, apiVars, formVars, panelVars,
                   modelOptions, adminLoading,
                   settingsFetch, modelsFetch, settingsData, modelsData, loadCount,
                   submitCount>>

AdminNext ==
    \/ LoadData
    \/ \E st \in {OK} \cup AdminFail : \E body \in BackendSettings :
          SettingsFetchSettle(st, body)
    \/ \E st \in {OK} \cup AdminFail : \E body \in BackendModels :
          ModelsFetchSettle(st, body)
    \/ \E v \in TemperatureInputs : SetFormField("temperature", v)
    \/ \E v \in MaxTokensInputs : SetFormField("maxTokens", v)
    \/ \E v \in RateLimitInputs : SetFormField("rateLimit", v)
    \/ SubmitSettings
    \/ \E st \in {OK} \cup AdminFail : UpdateSettingsSettle(st)

SpecAdmin == AdminInit /\ [][AdminNext]_vars

----------------------------------------------------------------------------
(* Admin page: tab changes, loadData of the single-fetch tabs, API keys *)

\* the state of the settings tab and of its form
settingsTabVars == <<settings, modelOptions, formData, formLoading, saved,
                     settingsFetch, modelsFetch, settingsData, modelsData,
                     putReq, loadCount, submitCount>>

\* key.slice(-4), key.length <= 4
VISIBLE_KEY_CHARS == 4

\* API keys are strings of distinct characters, of every length up to MaxKeyLen
KeyAlphabet == <<"a", "b", "c", "d", "e", "f", "g", "h">>
KeyVariants == {0, 1}
KeyOf(n, v) == [i \in 1..n |-> KeyAlphabet[((i + v) % Len(KeyAlphabet)) + 1]]
Keys == {KeyOf(n, v) : n \in 0..MaxKeyLen, v \in KeyVariants}

\* the bodies of GET /admin/api-keys: the key fields of the ApiKey records
KeyLists == UNION {[1..n -> Keys] : n \in 0..MaxKeys}

\* "*".repeat(n)
Stars(n) == [i \in 1..n |-> "*"]

\* a mask that leaves a short key as it is
maskKey_ShortShown(key) ==
    IF Len(key) <= VISIBLE_KEY_CHARS THEN key
    ELSE Stars(Len(key) - VISIBLE_KEY_CHARS)
            \o SubSeq(key, Len(key) - VISIBLE_KEY_CHARS + 1, Len(key))

\* maskKey
maskKey(key) ==
    IF Len(key) <= VISIBLE_KEY_CHARS THEN Stars(Len(key))
    ELSE Stars(Len(key) - VISIBLE_KEY_CHARS)
            \o SubSeq(key, Len(key) - VISIBLE_KEY_CHARS + 1, Len(key))

\* ApiKeyManagement is on screen
KeyPanelShown == activeTab = "api-keys" /\ ~adminLoading

\* the Key column of the key table, row by row
KeyRows ==
    IF KeyPanelShown THEN [i \in DOMAIN apiKeys |-> maskKey(apiKeys[i])]
    ELSE <<>>

\* the admin page has just mounted on tab: its effect has called loadData
AdminOnTab(tab) ==
    /\ USE_MOCK_AUTH = FALSE
    /\ user = "bob"
    /\ loading = FALSE
    /\ now = 0
    /\ lastActivity = 0
    /\ lastEvent = 0
    /\ token = "tokB"
    /\ userId = "bob"
    /\ mounted = TRUE
    /\ meReq = NoReq
    /\ loginPending = 0
    /\ registerPending = 0
    /\ logoutPending = 0
    /\ backendCalled = TRUE
    /\ location = "app"
    /\ route = "/admin"
    /\ ChatIdle
    /\ AdminIdle
    /\ apiReq = <<>>
    /\ apiResult = [outcome |-> "none", thrown |-> "none", status |-> 0,
                    data |-> "undefined"]
    /\ FormsIdle
    /\ KeyPanelIdle
    /\ activeTab = tab
    /\ tabSeq = 1
    /\ tabLoads = {[id |-> 1, tab |-> tab]}
    /\ tabData = [t \in TabKeys |-> 0]
    /\ done = None

\* loadData on a single-fetch tab up to its await: the spinner replaces the
\* tab content and the request is issued
LoadTabData(tab) ==
    /\ adminLoading' = TRUE
    /\ adminError' = ""
    /\ tabSeq' = tabSeq + 1
    /\ tabLoads' = tabLoads \cup {[id |-> tabSeq + 1, tab |-> tab]}

\* handleTabChange, then the [activeTab] effect
HandleTabChange(tab) ==
    /\ tab # activeTab
    /\ tabSeq < MaxTabLoads
    /\ activeTab' = tab
    /\ LoadTabData(tab)
    /\ done' = [op |-> "tabChange"]
    /\ UNCHANGED <<authVars, route, chatVars, apiVars, formVars,
                   settingsTabVars, tabData, keyVars>>

\* the request of the loadData call l settles with st (and, on the api-keys
\* tab, the key list keys): the rest of loadData.  When the spinner was on
\* screen the tab content mounts again, the key panel in its initial state.
TabLoadSettle(l, st, keys) ==
    /\ l \in tabLoads
    /\ l.tab # "api-keys" => keys = <<>>
    /\ tabLoads' = tabLoads \ {l}
    /\ IF st = OK
       THEN /\ tabData' = [tabData EXCEPT ![l.tab] = l.id]
            /\ apiKeys' = IF l.tab = "api-keys" THEN keys ELSE apiKeys
            /\ UNCHANGED adminError
       ELSE /\ adminError' = "Failed to load data"
            /\ UNCHANGED <<tabData, apiKeys>>
    /\ adminLoading' = FALSE
    /\ IF adminLoading
       THEN /\ newKeyDisplayed' = <<>>
            /\ keyLoading' = FALSE
            /\ keyError' = ""
       ELSE UNCHANGED <<newKeyDisplayed, keyLoading, keyError>>
    /\ done' = [op |-> IF st = OK THEN "tabLoaded" ELSE "tabLoadFailed",
                id |-> l.id]
    /\ UNCHANGED <<authVars, route, chatVars, apiVars, formVars,
                   settingsTabVars, activeTab, tabSeq, createReq, createCount>>

\* handleCreateKey up to its await
CreateKey ==
    /\ KeyPanelShown
    /\ ~keyLoading
    /\ createCount < MaxCreates
    /\ createCount' = createCount + 1
    /\ keyError' = ""
    /\ keyLoading' = TRUE
    /\ createReq' = TRUE
    /\ done' = [op |-> "createKey"]
    /\ UNCHANGED <<authVars, route, chatVars, adminVars, apiVars, formVars,
                   tabVars, apiKeys, newKeyDisplayed>>

\* adminApi.createApiKey settles with st and the full key of the response:
\* handleCreateKey from its first await to its second one, onKeysUpdated()
\* being loadData of the api-keys tab (success), or through catch and finally
\* (failure)
CreateKeySettle(st, fullKey) ==
    /\ createReq
    /\ createReq' = FALSE
    /\ IF st = OK
       THEN /\ newKeyDisplayed' = <<fullKey>>
            /\ LoadTabData("api-keys")
            /\ done' = [op |-> "keyCreated", fullKey |-> fullKey]
            /\ UNCHANGED <<keyLoading, keyError>>
       ELSE /\ keyError' = "Failed to create API key"
            /\ keyLoading' = FALSE
            /\ done' = [op |-> "keyCreateFailed"]
            /\ UNCHANGED <<newKeyDisplayed, adminLoading, adminError, tabSeq,
                           tabLoads>>
    /\ UNCHANGED <<authVars, route, chatVars, apiVars, formVars,
                   settingsTabVars, activeTab, tabData, apiKeys, createCount>>

\* The admin page opened on the stats tab; the user changes between the
\* single-fetch tabs
TabsInit == AdminOnTab("stats")

TabsNext ==
    \/ \E tab \in SingleFetchTabs : HandleTabChange(tab)
    \/ \E l \in tabLoads : \E st \in {OK} \cup AdminFail :
          TabLoadSettle(l, st, <<>>)

SpecTabs == TabsInit /\ [][TabsNext]_vars

\* The admin page opened on the api-keys tab (/admin?tab=api-keys)
KeysInit == AdminOnTab("api-keys")

KeysNext ==
    \/ \E l \in tabLoads : \E st \in {OK} \cup AdminFail :
          \E keys \in KeyLists : TabLoadSettle(l, st, keys)
    \/ CreateKey
    \/ \E st \in {OK} \cup AdminFail : \E fullKey \in Keys :
          CreateKeySettle(st, fullKey)

SpecKeys == KeysInit /\ [][KeysNext]_vars

----------------------------------------------------------------------------
(* ApiClient.request *)

ApiMethods == {"GET", "POST", "PUT", "DELETE"}
HttpStatuses == {200, 201, 204, 400, 401, 404, 500}

\* What the body of a response is: a JSON object without a 'message' field, a
\* JSON object with one, a JSON array, the JSON literal null, or text that is
\* not JSON (an empty body included).
ResponseBodies == {"object", "message", "array", "null", "invalid"}

\* How fetch(url, config) ends: it rejects (network failure) or it fulfils
\* with a response.
FetchOutcomes ==
    {[kind |-> "network", status |-> 0, body |-> "none"]} \cup
    {[kind |-> "response", status |-> st, body |-> b] :
        st \in HttpStatuses, b \in ResponseBodies}

\* response.ok
ResponseOk(st) == st \in 200..299

\* await response.json().catch(() => ({}))
ParsedBody(b) == IF b = "invalid" THEN "emptyObject" ELSE b

ApiResult(outcome, thrown, st, data) ==
    [outcome |-> outcome, thrown |-> thrown, status |-> st, data |-> data]

\* ApiClient.request once fetch has ended as f.  For a non-2xx response the
\* message of the ApiError is read from data.message; with the body null that
\* read throws a TypeError inside the try block, and the catch replaces it by
\* an ApiError of status 0.
Request(f) ==
    IF f.kind = "network"
    THEN ApiResult("rejected", "ApiError", 0, "undefined")
    ELSE LET data == ParsedBody(f.body) IN
         IF ~ResponseOk(f.status)
         THEN IF data = "null"
              THEN ApiResult("rejected", "ApiError", 0, "undefined")
              ELSE ApiResult("rejected", "ApiError", f.status, data)
         ELSE ApiResult("resolved", "none", f.status, data)

\* A page that uses the client is open; a token may be stored.
ApiInit ==
    /\ USE_MOCK_AUTH = FALSE
    /\ \E s \in {<<NULL, NULL>>, <<"tokA", "alice">>} :
          token = s[1] /\ userId = s[2] /\ user = s[2]
    /\ loading = FALSE
    /\ now = 0
    /\ lastActivity = 0
    /\ lastEvent = 0
    /\ mounted = TRUE
    /\ meReq = NoReq
    /\ loginPending = 0
    /\ registerPending = 0
    /\ logoutPending = 0
    /\ backendCalled = TRUE
    /\ location = "app"
    /\ route = "/"
    /\ ChatIdle
    /\ AdminIdle
    /\ ApiIdle
    /\ PanelIdle
    /\ FormsIdle
    /\ done = None

\* get / post / put / delete: request up to its await of fetch; the stored
\* token, if any, goes into the Authorization header
ApiCall(method) ==
    /\ apiReq = <<>>
    /\ apiReq' = <<[method |-> method, bearer |-> token]>>
    /\ done' = [op |-> "apiCall"]
    /\ UNCHANGED <<authVars, route, chatVars, adminVars, formVars, panelVars, apiResult>>

\* fetch ends as f: the rest of request
ApiFetchSettle(f) ==
    /\ apiReq # <<>>
    /\ apiReq' = <<>>
    /\ apiResult' = Request(f)
    /\ done' = [op |-> "apiSettled", method |-> apiReq[1].method, fetch |-> f]
    /\ UNCHANGED <<authVars, route, chatVars, adminVars, formVars, panelVars>>

ApiNext ==
    \/ \E method \in ApiMethods : ApiCall(method)
    \/ \E f \in FetchOutcomes : ApiFetchSettle(f)

SpecApi == ApiInit /\ [][ApiNext]_vars

----------------------------------------------------------------------------
(* Register page and reset-password page *)

\* password.length < 8
PASSWORD_MIN_LENGTH == 8

\* Passwords are strings of one repeated character, of the lengths around the
\* minimum.
PasswordChars == {"a", "b"}
PasswordLengths == {0, PASSWORD_MIN_LENGTH - 1, PASSWORD_MIN_LENGTH, MaxPasswordLen}
PasswordOf(n, c) == [i \in 1..n |-> c]
Passwords == {PasswordOf(n, c) : n \in PasswordLengths, c \in PasswordChars}

RegisterRoute == "/register"
ResetRoute == "/recovery/reset-password/[token]"

\* a register form that checks only that the two fields agree
RegisterValidation_NoLength(pw, cpw) ==
    IF pw # cpw THEN "Passwords do not match" ELSE ""

\* The checks of RegisterPage.handleSubmit: the error it sets, "" when it
\* passes both
RegisterValidation(pw, cpw) ==
    IF pw # cpw THEN "Passwords do not match"
    ELSE IF Len(pw) < PASSWORD_MIN_LENGTH
    THEN "Password must be at least 8 characters"
    ELSE ""

\* The checks of ResetPasswordWithTokenPage.handleSubmit
ResetValidation(pw, cpw) ==
    IF pw # cpw THEN "Passwords do not match"
    ELSE IF Len(pw) < PASSWORD_MIN_LENGTH
    THEN "Password must be at least 8 characters long"
    ELSE ""

\* The register page or the reset-password page is open for an anonymous
\* visitor; the effect of the reset page has started validating the token of
\* its URL, or has found none.
FormsInit ==
    /\ USE_MOCK_AUTH \in BOOLEAN
    /\ user = NULL
    /\ token = NULL
    /\ userId = NULL
    /\ loading = FALSE
    /\ now = 0
    /\ lastActivity = 0
    /\ lastEvent = 0
    /\ mounted = TRUE
    /\ meReq = NoReq
    /\ loginPending = 0
    /\ registerPending = 0
    /\ logoutPending = 0
    /\ backendCalled = FALSE
    /\ location = "app"
    /\ route \in {RegisterRoute, ResetRoute}
    /\ ChatIdle
    /\ AdminIdle
    /\ ApiIdle
    /\ PanelIdle
    /\ registerForm = EmptyForm
    /\ \E tokenInUrl \in BOOLEAN :
          IF route = ResetRoute /\ ~tokenInUrl
          THEN /\ resetForm = [EmptyResetForm EXCEPT
                                  !.validating = FALSE,
                                  !.error = "No reset token provided"]
               /\ validatePending = FALSE
          ELSE /\ resetForm = EmptyResetForm
               /\ validatePending = (route = ResetRoute)
    /\ resetPending = 0
    /\ done = None

\* onChange of the password and confirm-password inputs of the register page
SetRegisterField(field, pw) ==
    /\ route = RegisterRoute
    /\ registerForm[field] # pw
    /\ registerForm' = [registerForm EXCEPT ![field] = pw]
    /\ done' = [op |-> "edit"]
    /\ UNCHANGED <<authVars, route, chatVars, adminVars, apiVars, panelVars,
                   resetForm,
                   validatePending, resetPending>>

\* RegisterPage.handleSubmit up to its await of register(); in bypass mode
\* register() resolves at once and the handler runs to its end
RegisterSubmit ==
    /\ route = RegisterRoute
    /\ ~registerForm.loading
    /\ LET err == RegisterValidation(registerForm.password,
                                     registerForm.confirmPassword)
       IN
       IF err # ""
       THEN /\ registerForm' = [registerForm EXCEPT !.error = err]
            /\ done' = [op |-> "registerInvalid"]
            /\ UNCHANGED <<authVars, route>>
       ELSE /\ RegisterCall
            /\ registerForm' = [registerForm EXCEPT !.error = "",
                                                    !.loading = ~USE_MOCK_AUTH]
            /\ route' = IF USE_MOCK_AUTH THEN "/chat" ELSE route
    /\ UNCHANGED <<chatVars, adminVars, apiVars, panelVars,
                   resetForm, validatePending,
                   resetPending>>

\* register() settles: the rest of RegisterPage.handleSubmit
RegisterFormSettle ==
    /\ route = RegisterRoute
    /\ registerForm.loading
    /\ RegisterSettled
    /\ IF done'.result = "resolved"
       THEN /\ route' = "/chat"
            /\ registerForm' = [registerForm EXCEPT !.loading = FALSE]
       ELSE /\ registerForm' =
                  [registerForm EXCEPT
                      !.loading = FALSE,
                      !.error = IF done'.thrown = "ApiError"
                                THEN "Registration failed. Please try again."
                                ELSE "An unexpected error occurred"]
            /\ UNCHANGED route
    /\ UNCHANGED <<chatVars, adminVars, apiVars, panelVars,
                   resetForm, validatePending,
                   resetPending>>

\* a reset page that shows its form whatever the validation said
ResetFormShown_Unvalidated ==
    /\ route = ResetRoute
    /\ ~resetForm.validating
    /\ ~resetForm.success

\* the reset form is on screen
ResetFormShown ==
    /\ route = ResetRoute
    /\ ~resetForm.validating
    /\ resetForm.tokenValid
    /\ ~resetForm.success

\* validateToken after its fetch: "ok", "notOk" or "network"
ValidateSettle(res) ==
    /\ validatePending
    /\ validatePending' = FALSE
    /\ resetForm' = [resetForm EXCEPT
          !.validating = FALSE,
          !.tokenValid = (res = "ok"),
          !.error = CASE res = "ok" -> @
                      [] res = "notOk" -> "This reset link is invalid or has expired"
                      [] OTHER -> "Failed to validate reset link"]
    /\ done' = [op |-> "validated", res |-> res]
    /\ UNCHANGED <<authVars, route, chatVars, adminVars, apiVars, panelVars,
                   registerForm,
                   resetPending>>

\* onChange of the inputs of the reset form
SetResetField(field, pw) ==
    /\ ResetFormShown
    /\ resetForm[field] # pw
    /\ resetForm' = [resetForm EXCEPT ![field] = pw]
    /\ done' = [op |-> "edit"]
    /\ UNCHANGED <<authVars, route, chatVars, adminVars, apiVars, panelVars,
                   registerForm,
                   validatePending, resetPending>>

\* ResetPasswordWithTokenPage.handleSubmit up to its await of fetch
ResetSubmit ==
    /\ ResetFormShown
    /\ ~resetForm.loading
    /\ LET err == ResetValidation(resetForm.password, resetForm.confirmPassword)
       IN
       IF err # ""
       THEN /\ resetForm' = [resetForm EXCEPT !.error = err]
            /\ done' = [op |-> "resetInvalid"]
            /\ UNCHANGED resetPending
       ELSE /\ resetForm' = [resetForm EXCEPT !.error = "", !.loading = TRUE]
            /\ resetPending' = resetPending + 1
            /\ done' = [op |-> "resetCall"]
    /\ UNCHANGED <<authVars, route, chatVars, adminVars, apiVars, panelVars,
                   registerForm,
                   validatePending>>

\* POST /auth/reset-password ends: "ok", "okNotJson" (2xx whose body is not
\* JSON), "notOk" or "network"; the rest of handleSubmit
ResetSettle(res) ==
    /\ resetPending > 0
    /\ resetPending' = resetPending - 1
    /\ resetForm' = [resetForm EXCEPT
          !.loading = FALSE,
          !.success = (res = "ok"),
          !.error = CASE res = "ok" -> @
                      [] res = "notOk" -> "Failed to reset password"
                      [] res = "okNotJson" -> "Unexpected token"
                      [] OTHER -> "Failed to fetch"]
    /\ done' = [op |-> "resetSettled"]
    /\ UNCHANGED <<authVars, route, chatVars, adminVars, apiVars, panelVars,
                   registerForm,
                   validatePending>>

\* the timer set after a successful reset: router.push("/login")
ResetRedirect ==
    /\ route = ResetRoute
    /\ resetForm.success
    /\ route' = "/login"
    /\ done' = [op |-> "redirect"]
    /\ UNCHANGED <<authVars, chatVars, pageVars>>

FormsNext ==
    \/ \E pw \in Passwords : SetRegisterField("password", pw)
    \/ \E pw \in Passwords : SetRegisterField("confirmPassword", pw)
    \/ RegisterSubmit
    \/ RegisterFormSettle
    \/ \E res \in {"ok", "notOk", "network"} : ValidateSettle(res)
    \/ \E pw \in Passwords : SetResetField("password", pw)
    \/ \E pw \in Passwords : SetResetField("confirmPassword", pw)
    \/ ResetSubmit
    \/ \E res \in {"ok", "okNotJson", "notOk", "network"} : ResetSettle(res)
    \/ ResetRedirect

SpecForms == FormsInit /\ [][FormsNext]_vars

----------------------------------------------------------------------------

Next ==
    \/ Mount
    \/ RefreshUserResponse
    \/ \E cred \in Credentials : Login(cred)
    \/ LoginResponse
    \/ Register
    \/ RegisterResponse
    \/ Logout
    \/ LogoutResponse
    \/ Tick
    \/ Activity

Spec == Init /\ [][Next]_vars

\* The auth store of a visitor who signs in with the login form (no register
\* call)
LoginNext ==
    \/ Mount
    \/ RefreshUserResponse
    \/ \E cred \in Credentials : Login(cred)
    \/ LoginResponse
    \/ Logout
    \/ LogoutResponse
    \/ Tick
    \/ Activity

SpecLogin == Init /\ [][LoginNext]_vars

\* Every outstanding POST /auth/logout eventually settles (fetch resolves or rejects).
LiveSpec == Spec /\ WF_vars(LogoutResponse)

----------------------------------------------------------------------------
(* Properties of the auth session store *)

IdleFor == now - lastActivity

\* C1: in non-bypass mode, when logout() has completed the stored auth token is
\* absent, whatever the outcome of POST /auth/logout.
C1_LogoutClearsToken ==
    (~USE_MOCK_AUTH /\ done.op = "logout") => token = NULL

\* C2: logout() resolves for every outcome of the backend call, in bypass and
\* non-bypass mode, and leaves the store anonymous.
C2_LogoutEndsAnonymous ==
    done.op = "logout" =>
        /\ done.result = "resolved"
        /\ user = NULL
        /\ ~isAuthenticated

C2_Witness ==
    /\ ~USE_MOCK_AUTH
    /\ done.op = "logout"
    /\ done.status = 500
    /\ token # NULL

\* C3: while authenticated in non-bypass mode, once 60 minutes have passed
\* without recorded activity the watchdog has issued logout() with the redirect
\* to /login?reason=timeout, and the store eventually becomes anonymous.
C3_WatchdogLiveness ==
    /\ []((WatchdogActive /\ IdleFor >= SESSION_TIMEOUT_MIN)
            => (logoutPending > 0 /\ location = TimeoutRedirect))
    /\ ((WatchdogActive /\ IdleFor >= SESSION_TIMEOUT_MIN) ~> (user = NULL))

C3_Witness ==
    /\ location = TimeoutRedirect
    /\ done.op = "logout"
    /\ user = NULL
    /\ IdleFor >= SESSION_TIMEOUT_MIN

\* C4: in every reachable state of the store, no stored token implies no user.
C4_NoTokenImpliesAnonymous ==
    token = NULL => user = NULL

\* C7: in bypass mode login succeeds for every credentials value with the
\* fixed mock user (role admin), and login, register, refreshUser and logout
\* issue no backend call.
C7_BypassNoBackend ==
    USE_MOCK_AUTH =>
        /\ ~backendCalled
        /\ meReq = NoReq
        /\ loginPending = 0 /\ registerPending = 0 /\ logoutPending = 0
        /\ (done.op \in {"login", "register"} =>
               /\ done.result = "resolved"
               /\ user = MOCK_USER
               /\ Role(user) = "admin")

C7_Witness ==
    /\ USE_MOCK_AUTH
    /\ done.op = "login"
    /\ done.cred = "bad"
    /\ user = MOCK_USER

\* C9: a forced logout happens only while authenticated, outside bypass mode
\* and at least 60 minutes after the last interaction event and the last
\* recorded activity; an interaction event while the watchdog is installed
\* resets the idle clock.
C9_WatchdogOnlyAfterIdle ==
    /\ done.op = "timeout" =>
          /\ user # NULL
          /\ ~USE_MOCK_AUTH
          /\ now - lastActivity >= SESSION_TIMEOUT_MIN
          /\ now - lastEvent >= SESSION_TIMEOUT_MIN
    /\ (done.op = "activity" /\ WatchdogActive) => lastActivity = now

C9_Witness ==
    /\ done.op = "timeout"
    /\ lastEvent > 0
    /\ lastActivity = lastEvent

\* C10: on mount (non-bypass) the store starts loading and issues one fetch of
\* the current user; success gives that user, a 401 gives no user and no log,
\* any other failure gives no user and a logged error; loading ends false.
C10_MountRefresh ==
    ~USE_MOCK_AUTH =>
        /\ ~mounted => (loading /\ user = NULL /\ meReq = NoReq)
        /\ done.op = "mount" => (loading /\ meReq # NoReq)
        /\ done.op = "refresh" =>
              /\ ~loading
              /\ meReq = NoReq
              /\ done.status = OK => (user = done.fetched /\ user \in BackendUsers)
              /\ done.status = 401 => (user = NULL /\ ~done.logged)
              /\ done.status \notin {OK, 401} => (user = NULL /\ done.logged)

C10_Witness ==
    /\ ~USE_MOCK_AUTH
    /\ done.op = "refresh"
    /\ done.status = 500
    /\ done.logged
    /\ ~loading

\* C6: in non-bypass mode the admin dashboard content is rendered only for a
\* user whose role is admin or super-admin, and an authenticated user of role
\* 'user' on /admin is redirected to /chat.
C6_AdminOnlyForAdmins ==
    ~USE_MOCK_AUTH =>
        /\ AdminContentRendered => isAdmin
        /\ (route = "/admin" /\ ~loading /\ isAuthenticated /\ Role(user) = "user")
              => ProtectedRouteTarget(AdminPageRequireAdmin) = "/chat"

\* C5: when a successful send has appended its assistant message (the user
\* having done nothing else since the response arrived), the displayed sequence
\* is the sequence displayed before the response followed by exactly the user
\* message and the assistant message of that send, whether a conversation was
\* selected or the send created one.
C5_SendAppendsPair ==
    (done.op = "sendAppended" /\ sendCtx.undisturbed) =>
        messages = sendCtx.before \o <<UserMsg(sendCtx.n, sendCtx.conv),
                                       AssistantMsg(sendCtx.n, sendCtx.conv)>>

\* C8: a successful deletion of the selected conversation clears the message
\* list and the selection, and when the handler has finished the conversation
\* is no longer in the sidebar list.
C8_DeleteSelected ==
    /\ (done.op = "deleteOk" /\ done.sel) =>
          (messages = <<>> /\ currentConversationId = NoConv)
    /\ (done.op = "deleteDone" /\ done.sel) => done.conv \notin conversations

\* C11: a non-bypass login or register that resolves leaves the store
\* authenticated with exactly the user of the backend's response, and the
\* stored token is the token of that response.
C11_LoginStoresUserAndToken ==
    (~USE_MOCK_AUTH /\ done.op \in {"login", "register"}
                    /\ done.result = "resolved") =>
        /\ done.status = OK
        /\ done.fetched \in BackendUsers
        /\ user = done.fetched
        /\ isAuthenticated
        /\ token = done.tok

\* a register that replaced the stored token tokA by the response's tokB
C11_Witness ==
    /\ ~USE_MOCK_AUTH
    /\ done.op = "register"
    /\ done.result = "resolved"
    /\ user = "carol"
    /\ token = "tokB"
    /\ userId = "carol"

\* C12: a non-bypass login or register that fails rejects with the ApiError of
\* the request or else with a generic Error, and the step that fails it leaves
\* the store's user and the stored token as they were.
C12_FailedLoginLeavesSession ==
    [][(~USE_MOCK_AUTH /\ done'.op \in {"login", "register"}
                       /\ done'.result = "rejected") =>
          /\ done'.thrown \in {"ApiError", "Error"}
          /\ (done'.thrown = "ApiError" <=> done'.status # OK)
          /\ user' = user
          /\ token' = token]_vars

----------------------------------------------------------------------------
(* Properties of the admin settings tab *)

\* C13: every payload the settings form submits has its temperature within
\* [0, 2] and its maxTokens within [1, 4096], whatever the form fields hold:
\* temperature 5 becomes 2, maxTokens 0 becomes 1, maxTokens above 4096
\* becomes 4096, and a value within the range is kept.
C13_PayloadClamped ==
    /\ done.op = "submit" =>
          /\ done.payload.temperature >= TEMPERATURE_MIN
          /\ done.payload.temperature <= TEMPERATURE_MAX
          /\ done.payload.maxTokens >= MAX_TOKENS_MIN
          /\ done.payload.maxTokens <= MAX_TOKENS_MAX
          /\ done.form.temperature > TEMPERATURE_MAX =>
                done.payload.temperature = TEMPERATURE_MAX
          /\ done.form.maxTokens < MAX_TOKENS_MIN =>
                done.payload.maxTokens = MAX_TOKENS_MIN
          /\ done.form.maxTokens > MAX_TOKENS_MAX =>
                done.payload.maxTokens = MAX_TOKENS_MAX
          /\ done.form.temperature \in TEMPERATURE_MIN..TEMPERATURE_MAX =>
                done.payload.temperature = done.form.temperature
          /\ done.form.maxTokens \in MAX_TOKENS_MIN..MAX_TOKENS_MAX =>
                done.payload.maxTokens = done.form.maxTokens
    /\ putReq # <<>> =>
          /\ putReq[1].payload.temperature \in TEMPERATURE_MIN..TEMPERATURE_MAX
          /\ putReq[1].payload.maxTokens \in MAX_TOKENS_MIN..MAX_TOKENS_MAX

\* a submit with temperature 5 and maxTokens 4097 in the form
C13_Witness ==
    /\ done.op = "submit"
    /\ done.form.temperature = 500
    /\ done.form.maxTokens = 4097
    /\ done.payload.temperature = 200
    /\ done.payload.maxTokens = 4096

\* C14: every payload the settings form submits has rateLimit >= 1, an emptied
\* or zero rate-limit field included.
C14_PayloadRateLimit ==
    done.op = "submit" => done.payload.rateLimit >= 1

\* C15: the form's clamping of temperature and maxTokens is idempotent: applied
\* to a payload it has produced, or to the form data twice, it returns the
\* same record.
C15_ClampIdempotent ==
    /\ formData # <<>> => Payload(Payload(formData[1])) = Payload(formData[1])
    /\ settings # <<>> => Payload(Payload(settings[1])) = Payload(settings[1])
    /\ done.op = "submit" => Payload(done.payload) = done.payload

\* a submit whose payload differs from the form data in both clamped fields
C15_Witness ==
    /\ done.op = "submit"
    /\ done.form.temperature < TEMPERATURE_MIN
    /\ done.form.maxTokens = 0
    /\ Payload(done.payload) = done.payload
    /\ done.payload # done.form

\* C20: loadData on the settings tab issues the settings fetch and the models
\* fetch in one step; settings and the model option list change by a load only
\* when both fetches have settled, to the fetched settings and to the fetched
\* model list (the default list when the models fetch failed or gave none)
\* merged with the settings' model; a failed settings fetch changes neither
\* and shows an error.
C20_SettingsJoin ==
    [][/\ done'.op = "loadData" =>
             (settingsFetch' = "pending" /\ modelsFetch' = "pending")
       /\ (settings' # settings \/ modelOptions' # modelOptions) =>
             done'.op \in {"settingsLoaded", "settingsUpdated"}
       /\ done'.op = "settingsLoaded" =>
             /\ settingsFetch' = "ok"
             /\ modelsFetch' \in {"ok", "failed"}
             /\ settings' = settingsData'
             /\ ~adminLoading'
             /\ modelsFetch' = "failed" =>
                   modelOptions' = DEFAULT_MODELS \cup {settings'[1].model}
             /\ (modelsFetch' = "ok" /\ modelsData' # <<>>) =>
                   modelOptions' = modelsData'[1] \cup {settings'[1].model}
       /\ done'.op = "settingsLoadFailed" =>
             /\ settingsFetch' = "failed"
             /\ settings' = settings
             /\ modelOptions' = modelOptions
             /\ adminError' # ""
             /\ ~adminLoading'
       /\ done'.op = "fetchSettled" =>
             (settings' = settings /\ modelOptions' = modelOptions)]_vars

\* a load whose models fetch failed: both fetches have settled, and the join
\* has set the fetched settings with the default model list
C20_Witness ==
    /\ done.op = "settingsLoaded"
    /\ modelsFetch = "failed"
    /\ settings = settingsData
    /\ settings[1].model = "Llama-3 (Local)"
    /\ modelOptions = DEFAULT_MODELS \cup {"Llama-3 (Local)"}

----------------------------------------------------------------------------
(* Properties of the API client *)

\* C16: every ApiClient request ends in exactly one of three ways: a 2xx
\* response returns the parsed body; a non-2xx response fails with an ApiError
\* carrying the HTTP status and the parsed body; a network failure fails with
\* an ApiError of status 0.  Nothing but an ApiError is thrown.
C16_RequestOutcomes ==
    done.op = "apiSettled" =>
        /\ apiResult.outcome \in {"resolved", "rejected"}
        /\ apiResult.outcome = "rejected" => apiResult.thrown = "ApiError"
        /\ (done.fetch.kind = "response" /\ ResponseOk(done.fetch.status)) =>
              /\ apiResult.outcome = "resolved"
              /\ apiResult.data = ParsedBody(done.fetch.body)
        /\ (done.fetch.kind = "response" /\ ~ResponseOk(done.fetch.status)) =>
              /\ apiResult.outcome = "rejected"
              /\ apiResult.status = done.fetch.status
              /\ apiResult.data = ParsedBody(done.fetch.body)
        /\ done.fetch.kind = "network" =>
              /\ apiResult.outcome = "rejected"
              /\ apiResult.status = 0

----------------------------------------------------------------------------
(* Properties of the register and reset-password forms *)

\* C17: a submit of the register form or of the reset-password form whose
\* password and confirmation differ, or whose password is shorter than 8
\* characters, issues no backend request and shows an error; a request is
\* issued (or, in bypass mode, register() is called) only with fields that
\* pass both checks.
C17_ValidationBeforeNetwork ==
    [][/\ done'.op \in {"registerInvalid", "resetInvalid"} =>
             /\ registerPending' = registerPending
             /\ resetPending' = resetPending
             /\ validatePending' = validatePending
             /\ backendCalled' = backendCalled
             /\ user' = user
             /\ route' = route
       /\ done'.op = "registerInvalid" => registerForm'.error # ""
       /\ done'.op = "resetInvalid" => resetForm'.error # ""
       /\ (registerPending' > registerPending \/ (USE_MOCK_AUTH /\ done'.op = "register")) =>
             /\ registerForm.password = registerForm.confirmPassword
             /\ Len(registerForm.password) >= PASSWORD_MIN_LENGTH
       /\ resetPending' > resetPending =>
             /\ resetForm.password = resetForm.confirmPassword
             /\ Len(resetForm.password) >= PASSWORD_MIN_LENGTH]_vars

\* a register submit with two equal passwords of 7 characters: an error and no
\* request
C17_Witness ==
    /\ done.op = "registerInvalid"
    /\ registerForm.password = registerForm.confirmPassword
    /\ Len(registerForm.password) = PASSWORD_MIN_LENGTH - 1
    /\ registerForm.error = "Password must be at least 8 characters"
    /\ registerPending = 0
    /\ ~backendCalled

----------------------------------------------------------------------------
(* Properties of the chat page on failures *)

\* C18: the step in which a chat send fails leaves the displayed messages and
\* the selected conversation as they were (no user message and no assistant
\* message is added), shows a non-empty error and clears the loading
\* indicator.
C18_FailedSendLeavesChat ==
    [][done'.op = "sendFailed" =>
          /\ messages' = messages
          /\ currentConversationId' = currentConversationId
          /\ conversations' = conversations
          /\ error' # ""
          /\ ~isLoading']_vars

\* a second send, into the selected conversation 1, has failed: the two
\* messages of the first exchange are still the whole list
C18_Witness ==
    /\ done.op = "sendFailed"
    /\ sentCount = 2
    /\ currentConversationId = 1
    /\ messages = <<UserMsg(1, 1), AssistantMsg(1, 1)>>
    /\ error # ""
    /\ ~isLoading

\* C19: whenever a backend call of the chat page has failed (send message,
\* load the conversation list, load a conversation's history, delete a
\* conversation), the error banner is non-empty.
C19_FailureShowsBanner ==
    ("chatStatus" \in DOMAIN done /\ done.chatStatus # OK) => error # ""

----------------------------------------------------------------------------
(* Properties of a failed settings update *)

\* C21: the step in which the backend settings update fails keeps the
\* submitted settings as the current settings of the page, and leaves no
\* request for them outstanding.
C21_FailedUpdateKeptLocally ==
    [][done'.op = "settingsUpdateFailed" =>
          /\ settings' = <<putReq[1].payload>>
          /\ putReq' = <<>>]_vars

\* C25: after a failed settings update the form does not show the
\* "Settings saved" indicator.
C25_SavedOnlyOnSuccess ==
    done.op = "settingsUpdateFailed" => saved # "Settings saved"

----------------------------------------------------------------------------
(* Properties of overlapping requests *)

\* C23: in non-bypass mode the user of the store is reset to null only by a
\* logout (called by the user or by the watchdog): a refreshUser that was
\* started before a successful login and fails after it leaves the user
\* signed in.
C23_LoginSurvivesStaleRefresh ==
    [][(~USE_MOCK_AUTH /\ user # NULL /\ user' = NULL) => done'.op = "logout"]_vars

\* C24: when no chat request is outstanding, every displayed message belongs
\* to the selected conversation, and none is displayed when no conversation
\* is selected.
C24_MessagesOfSelection ==
    net = EmptyBag =>
        \A i \in DOMAIN messages : messages[i].conv = currentConversationId

----------------------------------------------------------------------------
(* Properties of the route guard *)

\* C26: in non-bypass mode ProtectedRoute renders its children only when
\* loading is false and a user is signed in (who is an admin when requireAdmin
\* is set); when loading is over and no user is signed in it renders nothing,
\* and its effect moves a protected page to /login.
C26_GuardRendersChildren ==
    /\ [](~USE_MOCK_AUTH =>
            \A requireAdmin \in BOOLEAN :
               /\ ProtectedRoute(requireAdmin) = "children" =>
                     /\ ~loading
                     /\ user # NULL
                     /\ requireAdmin => Role(user) \in {"admin", "super-admin"}
               /\ (~loading /\ user = NULL) =>
                     /\ ProtectedRoute(requireAdmin) = "null"
                     /\ ProtectedRouteTarget(requireAdmin) = "/login")
    /\ [][(~USE_MOCK_AUTH /\ done'.op = "redirect" /\ user = NULL) =>
             route' = "/login"]_vars

\* the guard of a protected page has found loading finished without a user
\* and has pushed /login
C26_Witness ==
    /\ ~USE_MOCK_AUTH
    /\ done.op = "redirect"
    /\ route = "/login"
    /\ ~loading
    /\ user = NULL
    /\ \A requireAdmin \in BOOLEAN : ProtectedRoute(requireAdmin) = "null"

----------------------------------------------------------------------------
(* Properties of the reset-password page *)

\* C29: a POST /auth/reset-password is issued only when the token validation
\* has completed (validating false) and succeeded (tokenValid true); tokenValid
\* becomes true only by a validation request that succeeded; with a missing
\* token, a rejected token or a failed validation request the password form
\* is not on screen.
C29_ResetOnlyAfterValidation ==
    /\ [][resetPending' > resetPending =>
             /\ ~resetForm.validating
             /\ resetForm.tokenValid]_vars
    /\ [][(resetForm'.tokenValid /\ ~resetForm.tokenValid) =>
             /\ done'.op = "validated"
             /\ done'.res = "ok"]_vars
    /\ []((resetForm.validating \/ ~resetForm.tokenValid) => ~ResetFormShown)

\* the validated reset form has been submitted with two equal passwords of 8
\* characters: the request is outstanding
C29_Witness ==
    /\ route = ResetRoute
    /\ done.op = "resetCall"
    /\ resetPending = 1
    /\ resetForm.tokenValid
    /\ ~resetForm.validating
    /\ Len(resetForm.password) = PASSWORD_MIN_LENGTH

----------------------------------------------------------------------------
(* Properties of the chat window *)

\* C30: a chat send request is issued only by a send call made while no send
\* is in progress and with an input that is not blank, and the text sent is
\* the input without its leading and trailing whitespace; at most one send
\* request is outstanding at any time; isLoading is true only while a request
\* of the running send is outstanding, and the step that ends a send, with
\* success or with a failure, leaves it false.
C30_OneSendAtATime ==
    /\ [][done'.op = "sendCall" =>
             /\ ~isLoading
             /\ LET input == done'.input
                    text == done'.text
                IN
                /\ text # <<>>
                /\ text[1] \notin Whitespace
                /\ text[Len(text)] \notin Whitespace
                /\ \E a \in 0..(Len(input) - Len(text)) :
                      /\ SubSeq(input, a + 1, a + Len(text)) = text
                      /\ \A k \in 1..a : input[k] \in Whitespace
                      /\ \A k \in (a + Len(text) + 1)..Len(input) :
                            input[k] \in Whitespace]_vars
    /\ [][(\E r \in BagToSet(net') :
              r.kind = "send" /\ CopiesIn(r, net') > CopiesIn(r, net)) =>
             done'.op = "sendCall"]_vars
    /\ [](LET S == {r \in BagToSet(net) : r.kind = "send"}
          IN Cardinality(S) <= 1 /\ \A r \in S : CopiesIn(r, net) = 1)
    /\ [](isLoading =>
             \E r \in BagToSet(net) :
                r.kind = "send" \/ r.cont \in {"send1", "send2"})
    /\ [][done'.op \in {"sendDone", "sendFailed"} => ~isLoading']_vars

\* the input " hi\n" has been sent as "hi": the request is outstanding and the
\* loading indicator is on
C30_Witness ==
    /\ done.op = "sendCall"
    /\ done.input = <<" ", "h", "i", "\n">>
    /\ done.text = <<"h", "i">>
    /\ isLoading
    /\ \E r \in BagToSet(net) : r.kind = "send" /\ CopiesIn(r, net) = 1

----------------------------------------------------------------------------
(* Properties of the chat page after a logout *)

\* C27: while the chat page is on screen and the auth user is null, it shows
\* no conversations, no selection and no messages, also after responses of
\* requests started before the logout have arrived.
C27_NothingShownWithoutUser ==
    (ChatPageShown /\ user = NULL) =>
        /\ conversations = {}
        /\ currentConversationId = NoConv
        /\ messages = <<>>

----------------------------------------------------------------------------
(* Properties of the admin tabs and of the API key panel *)

\* C22: the key panel stores a full key for display only in the step in which
\* createApiKey has answered with success, and it is the fullKey of that
\* response; every row of the key list shows a text of the length of its
\* key in which the last 4 characters of a key longer than 4 are the key's
\* own and every other character is '*'.
C22_KeysMasked ==
    /\ [][(newKeyDisplayed' # newKeyDisplayed /\ newKeyDisplayed' # <<>>) =>
             /\ done'.op = "keyCreated"
             /\ newKeyDisplayed' = <<done'.fullKey>>]_vars
    /\ [](KeyPanelShown => Len(KeyRows) = Len(apiKeys))
    /\ [](\A i \in DOMAIN KeyRows :
             LET key == apiKeys[i]
                 shown == KeyRows[i]
             IN
             /\ Len(shown) = Len(key)
             /\ \A j \in 1..Len(key) :
                   IF Len(key) > 4 /\ j > Len(key) - 4
                   THEN shown[j] = key[j]
                   ELSE shown[j] = "*")

\* after a key has been created the reloaded list is on screen with a key of
\* 6 characters, of which the last 4 are shown, and a key of 3 characters, of
\* which none is shown
C22_Witness ==
    /\ KeyPanelShown
    /\ createCount = 1
    /\ done.op = "tabLoaded"
    /\ Len(apiKeys) = 2
    /\ apiKeys[1] = <<"b", "c", "d", "e", "f", "g">>
    /\ KeyRows[1] = <<"*", "*", "d", "e", "f", "g">>
    /\ Len(apiKeys[2]) = 3
    /\ KeyRows[2] = <<"*", "*", "*">>

\* C28: on the admin page the loading flag is false only when no loadData
\* call is outstanding, and a tab shown without spinner and without error
\* shows the data of the most recently issued loadData call.
C28_LoadingCoversLoads ==
    /\ ~adminLoading => tabLoads = {}
    /\ (~adminLoading /\ adminError = "") => tabData[activeTab] = tabSeq

====
